---- MODULE Spec2Model ----
(***************************************************************************)
(* Model of imgst (src/main.rs): the run controller `main`, the parallel   *)
(* walker callback and `process_img`.                                      *)
(*                                                                         *)
(* A path is a record [abs, comps]: `abs` says whether it starts at the    *)
(* filesystem root, `comps` is the sequence of its components.  A          *)
(* component (file name) is a sequence of one-character strings, so that   *)
(* Path::extension and to_ascii_lowercase are computed, not assumed.       *)
(***************************************************************************)
EXTENDS Integers, Sequences, FiniteSets, TLC

VARIABLES
    pc,          \* position of main: Validating, Running, Reporting, Done, Aborted
    args,        \* the parsed Args: input, output, num_threads, dry_run
    fs,          \* the filesystem: a set of nodes [path, kind]
    fs0,         \* the filesystem as it was when the process started
    unreadable,  \* directories whose listing fails with an I/O error
    processed,   \* AtomicUsize counters of main
    skipped,
    failed,
    pending,     \* walker results found and not yet handed to a callback
    visited,     \* walker results handed to a callback so far
    inflight,    \* results whose callback invocation is running
    log,         \* one record per completed callback invocation
    quit,        \* some callback returned WalkState::Quit
    reported,    \* the tallies read for the summary line
    exit,        \* process exit status, -1 while running
    run,         \* which invocation of the program this is, counted from 1
    prev         \* what the invocation before this one left behind

vars == <<pc, args, fs, fs0, unreadable, processed, skipped, failed,
          pending, visited, inflight, log, quit, reported, exit, run, prev>>

(***************************************************************************)
(* Bounds                                                                  *)
(***************************************************************************)
MaxLeaves == 2      \* leaf nodes placed under the input directory
MaxThreads == 2     \* largest --num-threads value; also the default pool size
MaxRuns == 2        \* invocations of the program in a row

(***************************************************************************)
(* File names                                                              *)
(***************************************************************************)
n_in == <<"i", "n">>
n_out == <<"o", "u", "t">>
n_a == <<"a">>
n_b == <<"b">>
n_c == <<"c">>
n_d == <<"d">>
n_e == <<"e">>
n_img_jpg == <<"i", "m", "g", ".", "j", "p", "g">>
n_img2_jpg == <<"i", "m", "g", "2", ".", "j", "p", "g">>
n_photo_jpg == <<"p", "h", "o", "t", "o", ".", "j", "p", "g">>
n_IMG_JPEG == <<"I", "M", "G", ".", "J", "P", "E", "G">>
n_x_JpG == <<"x", ".", "J", "p", "G">>
n_note_txt == <<"n", "o", "t", "e", ".", "t", "x", "t">>
n_archive_tar_gz == <<"a", "r", "c", "h", "i", "v", "e", ".", "t", "a", "r", ".", "g", "z">>
n_photo == <<"p", "h", "o", "t", "o">>
n_hid_jpg == <<".", "h", ".", "j", "p", "g">>
n_link_jpg == <<"l", "n", ".", "j", "p", "g">>
n_dir_jpg == <<"d", "i", "r", ".", "j", "p", "g">>
n_fifo == <<"f", "i", "f", "o">>
n_dotdot == <<".", ".">>

s_jpg == <<"j", "p", "g">>
s_jpeg == <<"j", "p", "e", "g">>

(***************************************************************************)
(* std::path::Path as used by the program                                  *)
(***************************************************************************)
AbsPath(comps) == [abs |-> TRUE, comps |-> comps]
RelPath(comps) == [abs |-> FALSE, comps |-> comps]
NoPath == RelPath(<< >>)

\* a starts with b, component for component (Path::starts_with)
starts_with(a, b) ==
    /\ a.abs = b.abs
    /\ Len(b.comps) <= Len(a.comps)
    /\ SubSeq(a.comps, 1, Len(b.comps)) = b.comps

\* a strip_prefix that keeps only the last component
strip_prefix_base_name(src, base) ==
    IF starts_with(src, base)
    THEN [ok |-> TRUE,
          rel |-> RelPath(SubSeq(src.comps, Len(src.comps), Len(src.comps)))]
    ELSE [ok |-> FALSE, rel |-> NoPath]

\* Path::strip_prefix: Ok(relative remainder) or Err
strip_prefix(src, base) ==
    IF starts_with(src, base)
    THEN [ok |-> TRUE,
          rel |-> RelPath(SubSeq(src.comps, Len(base.comps) + 1, Len(src.comps)))]
    ELSE [ok |-> FALSE, rel |-> NoPath]

\* Path::file_name: the last component, unless the path ends in `..` or is empty
file_name(p) ==
    IF p.comps = << >> \/ p.comps[Len(p.comps)] = n_dotdot
    THEN [some |-> FALSE, name |-> << >>]
    ELSE [some |-> TRUE, name |-> p.comps[Len(p.comps)]]

\* position of the last "." of a name, 0 when there is none
LastDot(name) ==
    LET dots == {i \in 1..Len(name) : name[i] = "."}
    IN IF dots = {} THEN 0 ELSE CHOOSE i \in dots : \A j \in dots : j <= i

\* Path::extension: the part of the file name after its last ".", none when
\* there is no file name, no ".", or the only "." is the first character
extension(p) ==
    LET fname == file_name(p)
        k == LastDot(fname.name)
    IN IF ~fname.some \/ k <= 1
       THEN [some |-> FALSE, ext |-> << >>]
       ELSE [some |-> TRUE,
             ext |-> SubSeq(fname.name, k + 1, Len(fname.name))]

UpperChars == <<"A", "B", "C", "D", "E", "F", "G", "H", "I", "J", "K", "L", "M",
                "N", "O", "P", "Q", "R", "S", "T", "U", "V", "W", "X", "Y", "Z">>
LowerChars == <<"a", "b", "c", "d", "e", "f", "g", "h", "i", "j", "k", "l", "m",
                "n", "o", "p", "q", "r", "s", "t", "u", "v", "w", "x", "y", "z">>

\* a lowercasing that leaves the string as it is
to_ascii_lowercase_identity(s) == s

\* str::to_ascii_lowercase
to_ascii_lowercase(s) ==
    [i \in 1..Len(s) |->
        IF \E k \in 1..Len(UpperChars) : UpperChars[k] = s[i]
        THEN LowerChars[CHOOSE k \in 1..Len(UpperChars) : UpperChars[k] = s[i]]
        ELSE s[i]]

\* Path::join: an absolute argument replaces the base
join(base, p) ==
    IF p.abs THEN p ELSE [abs |-> base.abs, comps |-> base.comps \o p.comps]

(***************************************************************************)
(* The filesystem                                                          *)
(***************************************************************************)
Node(p, k) == [path |-> p, kind |-> k]

Prefixes(p) == {[abs |-> p.abs, comps |-> SubSeq(p.comps, 1, n)] : n \in 1..Len(p.comps)}

\* Path::exists / Path::is_dir
path_exists(f, p) == \E n \in f : n.path = p
is_dir(f, p) == \E n \in f : n.path = p /\ n.kind = "dir"

\* fs::create_dir_all succeeds unless some prefix of p is there and is no directory
create_dir_all_ok(f, p) ==
    \A q \in Prefixes(p) : path_exists(f, q) => is_dir(f, q)

\* a creation of the last directory only
create_dir_all_last_only(f, p) == f \cup {Node(p, "dir")}

\* the missing directories of p, its parents included, are added
create_dir_all(f, p) ==
    f \cup {Node(q, "dir") : q \in {r \in Prefixes(p) : ~path_exists(f, r)}}

(***************************************************************************)
(* Initial states: the arguments and the filesystem the process starts in  *)
(***************************************************************************)
InputArg == AbsPath(<<n_in>>)
\* one output path beside the input directory, two levels deep, and one inside it
OutputArgs == {AbsPath(<<n_out, n_d>>), AbsPath(<<n_in, n_out>>)}

\* `prev` before any invocation has finished
NoRun == [tallies |-> << >>, fs0 |-> {}, fs |-> {}, outcomes |-> {}, dry_run |-> FALSE]

Leaf(rel, k, bad) == [rel |-> rel, kind |-> k, bad |-> bad]

LeafUniverse ==
    { Leaf(<<n_a, n_b, n_c, n_img_jpg>>, "file", FALSE),
      Leaf(<<n_a, n_d, n_img2_jpg>>, "file", FALSE),
      Leaf(<<n_photo_jpg>>, "file", FALSE),
      Leaf(<<n_IMG_JPEG>>, "file", FALSE),
      Leaf(<<n_a, n_x_JpG>>, "file", FALSE),
      Leaf(<<n_note_txt>>, "file", FALSE),
      Leaf(<<n_a, n_archive_tar_gz>>, "file", FALSE),
      Leaf(<<n_photo>>, "file", FALSE),
      Leaf(<<n_hid_jpg>>, "file", FALSE),
      Leaf(<<n_link_jpg>>, "symlink", FALSE),
      Leaf(<<n_dir_jpg>>, "dir", FALSE),
      Leaf(<<n_fifo>>, "other", FALSE),
      Leaf(<<n_e>>, "dir", TRUE) }

\* the nodes a set of leaves stands for: the leaves, the directories above
\* them and the root directory itself
TreeNodes(root, leaves) ==
    {Node(join(root, RelPath(l.rel)), l.kind) : l \in leaves}
    \cup UNION {{Node(join(root, RelPath(SubSeq(l.rel, 1, n))), "dir") :
                    n \in 0..(Len(l.rel) - 1)} : l \in leaves}
    \cup {Node(root, "dir")}

\* the filesystem at process start: the input path is a directory holding
\* the leaves, a regular file, or missing; likewise the output path, which
\* has its parent directories when it is there
InitialFs(inKind, outKind, output, leaves) ==
    (CASE inKind = "dir" -> TreeNodes(InputArg, leaves)
       [] inKind = "file" -> {Node(InputArg, "file")}
       [] OTHER -> {})
    \cup (IF outKind = "missing" THEN {}
          ELSE {Node(output, outKind)}
               \cup {Node(q, "dir") : q \in Prefixes(output) \ {output, InputArg}})

\* the initial states with leaves drawn from `universe`, the output path from `outputs`
InitWith(universe, outputs) ==
    \E inKind \in {"dir", "file", "missing"}, outKind \in {"dir", "file", "missing"},
       output \in outputs, leaves \in SUBSET universe,
       dry \in BOOLEAN, nt \in 0..MaxThreads :
        /\ Cardinality(leaves) <= MaxLeaves
        /\ inKind # "dir" => leaves = {}
        /\ (inKind # "dir" /\ starts_with(output, InputArg)) => outKind = "missing"
        /\ args = [input |-> InputArg, output |-> output,
                   num_threads |-> nt, dry_run |-> dry]
        /\ fs = InitialFs(inKind, outKind, output, leaves)
        /\ fs0 = fs
        /\ unreadable = {join(InputArg, RelPath(l.rel)) : l \in {m \in leaves : m.bad}}
        /\ pc = "Validating"
        /\ processed = 0
        /\ skipped = 0
        /\ failed = 0
        /\ pending = {}
        /\ visited = {}
        /\ inflight = {}
        /\ log = {}
        /\ quit = FALSE
        /\ reported = << >>
        /\ exit = -1
        /\ run = 1
        /\ prev = NoRun

Init == InitWith(LeafUniverse, OutputArgs)

\* the leaves that between them give every outcome: processed, skipped,
\* failed, and a file three directories down
OutcomeLeaves ==
    { Leaf(<<n_a, n_d, n_img2_jpg>>, "file", FALSE),
      Leaf(<<n_photo_jpg>>, "file", FALSE),
      Leaf(<<n_note_txt>>, "file", FALSE),
      Leaf(<<n_e>>, "dir", TRUE) }

InitOutcomes == InitWith(OutcomeLeaves, {AbsPath(<<n_in, n_out>>)})

(***************************************************************************)
(* main, lines 82-95: startup validation                                   *)
(***************************************************************************)
\* the walk starts with the entry of the root directory itself (line 113)
WalkStart(root) == {[ok |-> TRUE, path |-> root, ft |-> "dir"]}

\* a validation that accepts any existing output path
validate_any_output(f, input, output, io) ==
    IF ~is_dir(f, input)
    THEN [err |-> TRUE, fs |-> f]
    ELSE IF ~path_exists(f, output)
    THEN IF io /\ create_dir_all_ok(f, output)
         THEN [err |-> FALSE, fs |-> create_dir_all(f, output)]
         ELSE [err |-> TRUE, fs |-> f]
    ELSE [err |-> FALSE, fs |-> f]

\* lines 82-95; io: whether the operating system lets create_dir_all succeed
validate(f, input, output, io) ==
    IF ~is_dir(f, input)
    THEN [err |-> TRUE, fs |-> f]
    ELSE IF ~path_exists(f, output)
    THEN IF io /\ create_dir_all_ok(f, output)
         THEN [err |-> FALSE, fs |-> create_dir_all(f, output)]
         ELSE [err |-> TRUE, fs |-> f]
    ELSE IF ~is_dir(f, output)
    THEN [err |-> TRUE, fs |-> f]
    ELSE [err |-> FALSE, fs |-> f]

\* an Err returned from main ends the process with status 1
Validate ==
    /\ pc = "Validating"
    /\ \E io \in BOOLEAN :
        LET v == validate(fs, args.input, args.output, io)
        IN /\ fs' = v.fs
           /\ pc' = IF v.err THEN "Aborted" ELSE "Running"
           /\ exit' = IF v.err THEN 1 ELSE exit
           /\ pending' = IF v.err THEN {} ELSE WalkStart(args.input)
    /\ UNCHANGED <<args, fs0, unreadable, run, prev, processed, skipped, failed,
                   visited, inflight, log, quit, reported>>

(***************************************************************************)
(* The parallel walker built at lines 113-118 and run at line 120          *)
(***************************************************************************)
OkResult(n) == [ok |-> TRUE, path |-> n.path, ft |-> n.kind]
ErrResult(p) == [ok |-> FALSE, path |-> p, ft |-> "error"]

\* a strict ancestor directory of p cannot be listed
BelowUnreadable(p) ==
    \E u \in unreadable : starts_with(p, u) /\ p # u

\* a name starting with "." below the root, at any depth down to p
Hidden(p, root) ==
    \E i \in (Len(root.comps) + 1)..Len(p.comps) : p.comps[i][1] = "."

\* everything a walk of `root` yields in all: one entry per node at or under the
\* root and one error per directory that cannot be listed.  Links are not
\* followed.  standard_filters(true) is called after hidden(false) and turns
\* the hidden-name filter, one of the standard filters, back on: names
\* starting with "." below the root are left out with all beneath them.
WalkResults(f, root) ==
    {OkResult(n) : n \in {m \in f : starts_with(m.path, root)
                                    /\ ~Hidden(m.path, root)
                                    /\ ~BelowUnreadable(m.path)}}
    \cup {ErrResult(u) : u \in {v \in unreadable : is_dir(f, v)
                                    /\ starts_with(v, root)
                                    /\ ~BelowUnreadable(v)}}

\* a pool that takes threads(0) literally
NumWorkers_literal == args.num_threads

\* threads(0) lets the walker pick the pool size
NumWorkers == IF args.num_threads = 0 THEN MaxThreads ELSE args.num_threads

Completed == {l.res : l \in log}

ParentOf(p) == [abs |-> p.abs, comps |-> SubSeq(p.comps, 1, Len(p.comps) - 1)]

\* what the walker finds when it lists directory `dir` of filesystem f: an
\* error when the directory cannot be read, else one entry per child whose
\* name does not start with "."
Listing(f, dir) ==
    IF dir \in unreadable
    THEN {ErrResult(dir)}
    ELSE {OkResult(n) : n \in {m \in f : /\ m.path.abs = dir.abs
                                         /\ Len(m.path.comps) = Len(dir.comps) + 1
                                         /\ ParentOf(m.path) = dir
                                         /\ m.path.comps[Len(m.path.comps)][1] # "."}}

\* a worker takes a result off the walker's stack and calls the callback
Deliver(r) ==
    /\ pc = "Running"
    /\ ~quit
    /\ Cardinality(inflight) < NumWorkers
    /\ r \in pending
    /\ pending' = pending \ {r}
    /\ visited' = visited \cup {r}
    /\ inflight' = inflight \cup {r}
    /\ UNCHANGED <<pc, args, fs, fs0, unreadable, run, prev, processed, skipped, failed,
                   log, quit, reported, exit>>

(***************************************************************************)
(* process_img, lines 192-216                                              *)
(***************************************************************************)
\* one line handed to the logger
LogLine(level, text, src, dst) ==
    [level |-> level, text |-> text, src |-> src, dst |-> dst]

\* a process_img that writes the destination file in a live run
process_img_writes(input_root, output_root, src, dry_run) ==
    LET stripped == strip_prefix(src, input_root)
        fname == file_name(src)
    IN IF ~stripped.ok /\ ~fname.some
       THEN [ok |-> FALSE, dst |-> NoPath, fallback |-> TRUE, writes |-> {},
             lines |-> {}]
       ELSE LET rel_path == IF stripped.ok THEN stripped.rel
                            ELSE RelPath(<<fname.name>>)
                dst == join(output_root, rel_path)
            IN [ok |-> TRUE,
                dst |-> dst,
                fallback |-> ~stripped.ok,
                writes |-> IF dry_run THEN {} ELSE {Node(dst, "file")},
                lines |-> IF dry_run
                          THEN {LogLine("debug", "dry-run: would clean", src, dst)}
                          ELSE {}]

\* a process_img without the base-name fallback
process_img_no_fallback(input_root, output_root, src, dry_run) ==
    LET stripped == strip_prefix(src, input_root)
    IN IF ~stripped.ok
       THEN [ok |-> FALSE, dst |-> NoPath, fallback |-> FALSE, writes |-> {},
             lines |-> {}]
       ELSE LET dst == join(output_root, stripped.rel)
            IN [ok |-> TRUE,
                dst |-> dst,
                fallback |-> FALSE,
                writes |-> {},
                lines |-> IF dry_run
                          THEN {LogLine("debug", "dry-run: would clean", src, dst)}
                          ELSE {}]

\* the result: Ok or Err, the destination computed at line 205, whether the
\* base-name fallback of line 201 was taken, the nodes written to the
\* filesystem (none) and the lines logged (lines 207-213)
process_img(input_root, output_root, src, dry_run) ==
    LET stripped == strip_prefix(src, input_root)
        fname == file_name(src)
    IN IF ~stripped.ok /\ ~fname.some
       THEN [ok |-> FALSE, dst |-> NoPath, fallback |-> TRUE, writes |-> {},
             lines |-> {}]
       ELSE LET rel_path == IF stripped.ok THEN stripped.rel
                            ELSE RelPath(<<fname.name>>)
                dst == join(output_root, rel_path)
            IN [ok |-> TRUE,
                dst |-> dst,
                fallback |-> ~stripped.ok,
                writes |-> {},
                lines |-> IF dry_run
                          THEN {LogLine("debug", "dry-run: would clean", src, dst)}
                          ELSE {}]

(***************************************************************************)
(* The walker callback, lines 127-175                                      *)
(***************************************************************************)
\* a file-type test that also takes links for files
is_regular_or_link(r) == r.ft \in {"file", "symlink"}

\* a file-type test that takes everything but a directory for a file
is_regular_not_dir(r) == r.ft # "dir"

\* lines 133-136: entry.file_type().map(|ft| ft.is_file()).unwrap_or(false)
is_regular(r) == r.ft = "file"

\* lines 141-147
is_jpeg(path) ==
    LET ext == extension(path)
    IN ext.some /\ to_ascii_lowercase(ext.ext) \in {s_jpg, s_jpeg}

\* a callback that stops the walk on a traversal error
CallbackReturn_quit_on_error(r) == IF r.ok THEN "Continue" ELSE "Quit"

\* the WalkState every path of the callback returns (lines 138, 151, 174)
CallbackReturn(r) == "Continue"

\* a separate load and store: the increment is lost when another callback
\* is running at the same time
fetch_add_load_store(counter, others) ==
    IF others > 0 THEN counter ELSE counter + 1

\* AtomicUsize::fetch_add(1, Relaxed), lines 150, 157, 160, 169: one atomic
\* read-modify-write, whatever the number of other callbacks running
fetch_add(counter, others) == counter + 1

LogRec(r, outcome, dispatched, res, lines, direct) ==
    [res |-> r, outcome |-> outcome, dispatched |-> dispatched,
     dst |-> res.dst, fallback |-> res.fallback, writes |-> res.writes,
     lines |-> res.lines \cup lines, direct |-> direct]

\* the result record of an invocation that does not call process_img
NoCall == [ok |-> TRUE, dst |-> NoPath, fallback |-> FALSE, writes |-> {},
           lines |-> {}]

\* what one invocation of the callback does with result r
CallbackOutcome(r) ==
    IF ~r.ok
    THEN LogRec(r, "Failed", FALSE, NoCall,
                {LogLine("error", "walk error", r.path, NoPath)}, FALSE)
    ELSE IF ~is_regular(r)
    THEN LogRec(r, "None", FALSE, NoCall, {}, FALSE)
    ELSE IF ~is_jpeg(r.path)
    THEN LogRec(r, "Skipped", FALSE, NoCall, {}, FALSE)
    ELSE LET res == process_img(args.input, args.output, r.path, args.dry_run)
         IN IF res.ok
            THEN LogRec(r, "Processed", TRUE, res, {}, FALSE)
            ELSE LogRec(r, "Failed", TRUE, res,
                        {LogLine("error", "failed to process", r.path, NoPath)},
                        FALSE)

\* a callback runs on a worker thread, whatever main is doing; when it has
\* returned Continue for a directory the worker lists the directory
Callback(r) ==
    /\ r \in inflight
    /\ LET rec == CallbackOutcome(r)
           others == Cardinality(inflight) - 1
       IN /\ log' = log \cup {rec}
          /\ fs' = fs \cup rec.writes
          /\ processed' = IF rec.outcome = "Processed"
                          THEN fetch_add(processed, others) ELSE processed
          /\ skipped' = IF rec.outcome = "Skipped"
                        THEN fetch_add(skipped, others) ELSE skipped
          /\ failed' = IF rec.outcome = "Failed"
                       THEN fetch_add(failed, others) ELSE failed
    /\ inflight' = inflight \ {r}
    /\ quit' = (quit \/ CallbackReturn(r) = "Quit")
    /\ pending' = IF r.ok /\ r.ft = "dir" /\ CallbackReturn(r) = "Continue"
                  THEN pending \cup Listing(fs', r.path)
                  ELSE pending
    /\ UNCHANGED <<pc, args, fs0, unreadable, run, prev, visited, reported, exit>>

\* a walker.run that returns without waiting for the callbacks still running
WalkJoin_no_join ==
    /\ pc = "Running"
    /\ quit \/ pending = {}
    /\ pc' = "Reporting"
    /\ UNCHANGED <<args, fs, fs0, unreadable, run, prev, processed, skipped, failed,
                   pending, visited, inflight, log, quit, reported, exit>>

\* walker.run returns once no callback is running and the stack is empty
WalkJoin ==
    /\ pc = "Running"
    /\ inflight = {}
    /\ quit \/ pending = {}
    /\ pc' = "Reporting"
    /\ UNCHANGED <<args, fs, fs0, unreadable, run, prev, processed, skipped, failed,
                   pending, visited, inflight, log, quit, reported, exit>>

(***************************************************************************)
(* main, lines 178-189: the summary line and the return value              *)
(***************************************************************************)
Report ==
    /\ pc = "Reporting"
    /\ reported' = <<processed, skipped, failed>>
    /\ exit' = 0
    /\ pc' = "Done"
    /\ UNCHANGED <<args, fs, fs0, unreadable, run, prev, processed, skipped, failed,
                   pending, visited, inflight, log, quit>>

Next ==
    \/ Validate
    \/ \E r \in pending : Deliver(r)
    \/ \E r \in inflight : Callback(r)
    \/ WalkJoin
    \/ Report

Spec == Init /\ [][Next]_vars

(***************************************************************************)
(* The program invoked again after a run has finished                      *)
(***************************************************************************)
\* what a finished run leaves for comparison: the tallies it reported, the
\* filesystem it started in and ended with, and the outcome of each entry
RunRecord ==
    [tallies |-> reported, fs0 |-> fs0, fs |-> fs,
     outcomes |-> {[res |-> l.res, outcome |-> l.outcome, dst |-> l.dst,
                    writes |-> l.writes] : l \in log},
     dry_run |-> args.dry_run]

\* a new process: main starts over with fresh counters (lines 108-111) on
\* the filesystem `f`, with the arguments `a`
StartAgain(f, a) ==
    /\ pc = "Done"
    /\ run < MaxRuns
    /\ prev' = RunRecord
    /\ run' = run + 1
    /\ args' = a
    /\ fs' = f
    /\ fs0' = f
    /\ pc' = "Validating"
    /\ processed' = 0
    /\ skipped' = 0
    /\ failed' = 0
    /\ pending' = {}
    /\ visited' = {}
    /\ inflight' = {}
    /\ log' = {}
    /\ quit' = FALSE
    /\ reported' = << >>
    /\ exit' = -1
    /\ UNCHANGED unreadable

\* the same command line again, on the filesystem as the run left it
Rerun == StartAgain(fs, args)

\* the same command line with --dry-run switched, on the filesystem the
\* run started in
RunTwin == StartAgain(fs0, [args EXCEPT !.dry_run = ~args.dry_run])

SpecRerun == Init /\ [][Next \/ Rerun]_vars

SpecTwin == Init /\ [][Next \/ RunTwin]_vars

(***************************************************************************)
(* The callback and process_img applied to one entry of any path: paths    *)
(* below the input root, beside it, relative ones, and paths that have no  *)
(* file name                                                               *)
(***************************************************************************)
n_x == <<"x">>
n_inx == <<"i", "n", "x">>

AnyPaths ==
    { AbsPath(<<n_in, n_photo_jpg>>),
      AbsPath(<<n_in, n_a, n_b, n_c, n_img_jpg>>),
      AbsPath(<<n_in, n_note_txt>>),
      AbsPath(<<n_in>>),
      AbsPath(<<n_in, n_dotdot>>),
      AbsPath(<<n_x, n_photo_jpg>>),
      AbsPath(<<n_x, n_a, n_IMG_JPEG>>),
      AbsPath(<<n_x, n_note_txt>>),
      AbsPath(<<n_inx, n_x_JpG>>),
      AbsPath(<<n_x, n_dotdot>>),
      AbsPath(<< >>),
      RelPath(<<n_in, n_photo_jpg>>),
      RelPath(<<n_dotdot>>) }

InitAny ==
    \E output \in OutputArgs, dry \in BOOLEAN, src \in AnyPaths,
       ft \in {"file", "dir"} :
        /\ args = [input |-> InputArg, output |-> output,
                   num_threads |-> 1, dry_run |-> dry]
        /\ fs = InitialFs("dir", "dir", output, {})
        /\ fs0 = fs
        /\ unreadable = {}
        /\ pc = "Call"
        /\ processed = 0
        /\ skipped = 0
        /\ failed = 0
        /\ pending = {}
        /\ visited = {[ok |-> TRUE, path |-> src, ft |-> ft]}
        /\ inflight = visited
        /\ log = {}
        /\ quit = FALSE
        /\ reported = << >>
        /\ exit = -1
        /\ run = 1
        /\ prev = NoRun

\* process_img called on the entry's path, whatever the entry is
CallProcessImg(r) ==
    /\ pc = "Call"
    /\ r \in inflight
    /\ LET res == process_img(args.input, args.output, r.path, args.dry_run)
       IN /\ log' = log \cup {LogRec(r, IF res.ok THEN "Processed" ELSE "Failed",
                                     TRUE, res, {}, TRUE)}
          /\ fs' = fs \cup res.writes
    /\ inflight' = inflight \ {r}
    /\ pc' = "Returned"
    /\ UNCHANGED <<args, fs0, unreadable, run, prev, processed, skipped, failed,
                   pending, visited, quit, reported, exit>>

NextAny ==
    \/ \E r \in inflight : CallProcessImg(r)
    \/ \E r \in inflight : Callback(r)

SpecAny == InitAny /\ [][NextAny]_vars

\* the runs of the program together with the single calls
SpecAll == (Init \/ InitAny) /\ [][Next \/ NextAny]_vars

\* main and the worker threads are scheduled by the operating system and no
\* step of theirs blocks for ever: a step that can be taken is taken
FairSpec == InitOutcomes /\ [][Next]_vars /\ WF_vars(Next)

(***************************************************************************)
(* Vocabulary of the properties                                            *)
(***************************************************************************)
WalkOver == pc \in {"Reporting", "Done"}

\* the names of the model whose extension reads jpg or jpeg in any case
JpegNames == {n_img_jpg, n_img2_jpg, n_photo_jpg, n_IMG_JPEG, n_x_JpG,
              n_hid_jpg, n_link_jpg, n_dir_jpg}

LastName(p) == p.comps[Len(p.comps)]

\* p lies strictly below q
Below(p, q) ==
    /\ p.abs = q.abs
    /\ Len(p.comps) > Len(q.comps)
    /\ \A i \in 1..Len(q.comps) : p.comps[i] = q.comps[i]

\* the components of p after the first n
After(p, n) == [i \in 1..(Len(p.comps) - n) |-> p.comps[n + i]]

RegularVisited == {r \in visited : r.ok /\ r.ft = "file"}
ErrorsVisited == {r \in visited : ~r.ok}

\* the regular files of the input tree at process start
InputFiles == {n \in fs0 : n.kind = "file" /\ Below(n.path, args.input)}
EligibleFiles == {n \in InputFiles : LastName(n.path) \in JpegNames}
IneligibleFiles == InputFiles \ EligibleFiles

\* the startup conditions that are Configuration errors
InputNotDir == [path |-> args.input, kind |-> "dir"] \notin fs0
OutputNotDir == \E n \in fs0 : n.path = args.output /\ n.kind # "dir"

(***************************************************************************)
(* C1                                                                      *)
(***************************************************************************)
\* C1 (as stated): once the walk has completed, processed + skipped + failed
\* equals the number of regular-file entries visited by the walk.
C1_SumIsRegularFiles ==
    WalkOver => processed + skipped + failed = Cardinality(RegularVisited)

\* C1 (amended): once the walk has completed, processed + skipped + failed
\* equals the number of regular-file entries visited plus the number of
\* traversal errors delivered; a directory, symlink or other non-regular
\* entry contributes to no counter.
C1_SumIsFilesPlusErrors ==
    /\ WalkOver => processed + skipped + failed
                     = Cardinality(RegularVisited) + Cardinality(ErrorsVisited)
    /\ \A l \in log : (l.res.ok /\ l.res.ft # "file") => l.outcome = "None"
    /\ processed = Cardinality({l \in log : l.outcome = "Processed"})
    /\ skipped = Cardinality({l \in log : l.outcome = "Skipped"})
    /\ failed = Cardinality({l \in log : l.outcome = "Failed"})

C1_Witness ==
    /\ pc = "Done"
    /\ RegularVisited # {}
    /\ ErrorsVisited # {}
    /\ \E r \in visited : r.ok /\ r.ft = "dir"

(***************************************************************************)
(* C2                                                                      *)
(***************************************************************************)
\* C2: the exit status is 0 exactly when the run started and the final
\* failed count is zero; with failed >= 1 after a completed walk it is
\* non-zero.
C2_ExitStatus ==
    pc \in {"Done", "Aborted"} => (exit = 0 <=> (pc = "Done" /\ failed = 0))

(***************************************************************************)
(* C3                                                                      *)
(***************************************************************************)
\* C3: when the input path is no directory, or the output path exists and
\* is no directory, the run aborts in validation: the walker never starts,
\* nothing is visited, the counters stay 0 and the exit status is non-zero.
C3_ConfigurationAbort ==
    ((InputNotDir \/ OutputNotDir) /\ pc # "Validating")
        => /\ pc = "Aborted"
           /\ exit > 0
           /\ visited = {} /\ inflight = {} /\ log = {}
           /\ processed = 0 /\ skipped = 0 /\ failed = 0
           /\ fs = fs0

C3_Witness ==
    /\ pc = "Aborted"
    /\ ~InputNotDir
    /\ OutputNotDir
    /\ InputFiles # {}

(***************************************************************************)
(* C4                                                                      *)
(***************************************************************************)
\* C4: a dry run over a tree with N eligible and M ineligible regular
\* files and no traversal error ends with processed = N, skipped = M,
\* failed = 0, and reports these.
C4_DryRunCounts ==
    (args.dry_run /\ unreadable = {})
        => /\ WalkOver => /\ processed = Cardinality(EligibleFiles)
                          /\ skipped = Cardinality(IneligibleFiles)
                          /\ failed = 0
           /\ pc = "Done" => reported = <<Cardinality(EligibleFiles),
                                          Cardinality(IneligibleFiles), 0>>

C4_Witness ==
    /\ pc = "Done"
    /\ args.dry_run
    /\ unreadable = {}
    /\ processed >= 1
    /\ skipped >= 1

(***************************************************************************)
(* C5                                                                      *)
(***************************************************************************)
AtOrUnderOutput(f) == {n \in f : n.path = args.output \/ Below(n.path, args.output)}

\* C5: a dry run leaves the filesystem at and under the output path as it
\* was before the run, also when the output path did not exist.
C5_DryRunWritesNothing ==
    args.dry_run => AtOrUnderOutput(fs) = AtOrUnderOutput(fs0)

(***************************************************************************)
(* C6                                                                      *)
(***************************************************************************)
\* C6: after a live run without failures every eligible file at relative
\* path R under the input root has a destination file at output root/R, and
\* every entry counted as processed has had its destination written.
C6_DestinationsWritten ==
    (pc = "Done" /\ ~args.dry_run /\ failed = 0)
        => /\ \A n \in EligibleFiles :
                [path |-> [abs |-> args.output.abs,
                           comps |-> args.output.comps
                                     \o After(n.path, Len(args.input.comps))],
                 kind |-> "file"] \in fs
           /\ \A l \in log : l.outcome = "Processed"
                => [path |-> l.dst, kind |-> "file"] \in fs

(***************************************************************************)
(* C8                                                                      *)
(***************************************************************************)
\* C8: for a path below the input root the destination computed by
\* process_img lies under the output root, and its path relative to the
\* output root equals the source's path relative to the input root,
\* component for component.
C8_PathMapping ==
    \A l \in log : (l.dispatched /\ Below(l.res.path, args.input))
        => /\ l.outcome = "Processed"
           /\ Below(l.dst, args.output)
           /\ After(l.dst, Len(args.output.comps))
                = After(l.res.path, Len(args.input.comps))

C8_Witness ==
    \E l \in log :
        /\ l.dispatched
        /\ Len(l.res.path.comps) >= Len(args.input.comps) + 3
        /\ Len(args.output.comps) > Len(args.input.comps)

(***************************************************************************)
(* C9                                                                      *)
(***************************************************************************)
\* C9: an entry is dispatched to process_img exactly when it is a regular
\* file whose extension, in any letter case, is jpg or jpeg; every other
\* regular file is counted as skipped and never dispatched.
C9_Eligibility ==
    \A l \in log : l.res.ok
        => /\ l.dispatched
                <=> (l.res.ft = "file" /\ LastName(l.res.path) \in JpegNames)
           /\ (l.res.ft = "file" /\ LastName(l.res.path) \notin JpegNames)
                => l.outcome = "Skipped"

C9_Witness ==
    /\ \E l \in log : l.dispatched /\ LastName(l.res.path) \in {n_IMG_JPEG, n_x_JpG}
    /\ \E l \in log : l.outcome = "Skipped"
                      /\ LastName(l.res.path) \in {n_archive_tar_gz, n_photo}

(***************************************************************************)
(* C10                                                                     *)
(***************************************************************************)
\* C10: the callback for a traversal error adds exactly 1 to failed, leaves
\* processed and skipped alone and does not stop the walk; every callback
\* returns Continue, so when the walk is over every result of the walk has
\* been delivered and handled.
C10_ErrorsDoNotStopWalk ==
    /\ [][(\E r \in inflight : ~r.ok /\ r \notin inflight')
            => /\ failed' = failed + 1
               /\ processed' = processed
               /\ skipped' = skipped
               /\ ~quit']_vars
    /\ [](~quit)
    /\ [](WalkOver => /\ visited = WalkResults(fs, args.input)
                      /\ Completed = visited)

C10_Witness ==
    /\ args.num_threads = 1
    /\ \E l \in log : ~l.res.ok
    /\ \E r \in inflight : r.ok /\ r.ft = "file"

(***************************************************************************)
(* C11                                                                     *)
(***************************************************************************)
Outcomes(o) == {l \in log : l.outcome = o}

\* C11: the tallies are read only after every callback invocation of the
\* walk has completed: once the walk is over no callback is running and no
\* counter changes, so the reported values are the numbers of increments
\* made during the run.
C11_ReadAfterJoin ==
    /\ [](WalkOver => (inflight = {} /\ Completed = visited))
    /\ [][WalkOver => (processed' = processed /\ skipped' = skipped
                       /\ failed' = failed)]_vars
    /\ [](pc = "Done" => reported = <<Cardinality(Outcomes("Processed")),
                                      Cardinality(Outcomes("Skipped")),
                                      Cardinality(Outcomes("Failed"))>>)

C11_Witness ==
    /\ pc = "Done"
    /\ NumWorkers >= 2
    /\ reported[2] >= 1
    /\ reported[3] >= 1

(***************************************************************************)
(* C12                                                                     *)
(***************************************************************************)
\* the tallies the results of the walk call for, however they are scheduled
ExpectedTally ==
    LET W == WalkResults(fs, args.input)
    IN <<Cardinality({r \in W : r.ok /\ r.ft = "file"
                                /\ LastName(r.path) \in JpegNames}),
         Cardinality({r \in W : r.ok /\ r.ft = "file"
                                /\ LastName(r.path) \notin JpegNames}),
         Cardinality({r \in W : ~r.ok})>>

\* C12: for every pool size and every interleaving of the callbacks no
\* increment is lost, and the final triple is the one the delivered entries
\* call for, whatever the schedule and the thread count.
C12_TalliesIndependentOfSchedule ==
    /\ processed + skipped + failed
         = Cardinality({l \in log : l.outcome # "None"})
    /\ WalkOver => <<processed, skipped, failed>> = ExpectedTally

C12_Witness ==
    /\ pc = "Done"
    /\ args.num_threads = 0
    /\ processed >= 1
    /\ skipped >= 1

(***************************************************************************)
(* C13                                                                     *)
(***************************************************************************)
\* C13: a callback invocation for a regular file adds exactly 1 to exactly
\* one counter; an invocation for any other entry changes no counter; every
\* invocation returns normally, leaving one outcome and the walk going.
C13_OneOutcomePerInvocation ==
    [][\A r \in inflight : (r.ok /\ r \notin inflight')
        => /\ Cardinality({l \in log' : l.res = r}) = 1
           /\ ~quit'
           /\ IF r.ft = "file"
              THEN /\ processed' - processed \in {0, 1}
                   /\ skipped' - skipped \in {0, 1}
                   /\ failed' - failed \in {0, 1}
                   /\ (processed' + skipped' + failed')
                        = (processed + skipped + failed) + 1
              ELSE /\ processed' = processed
                   /\ skipped' = skipped
                   /\ failed' = failed]_vars

C13_Witness ==
    /\ \E l \in log : l.res.ft = "other" /\ l.outcome = "None"
    /\ \E l \in log : l.res.ft = "file" /\ l.outcome = "Processed"

(***************************************************************************)
(* C14                                                                     *)
(***************************************************************************)
ControllerMoves ==
    {<<"Validating", "Running">>, <<"Validating", "Aborted">>,
     <<"Running", "Reporting">>, <<"Reporting", "Done">>}

\* C14: the run controller moves only Validating -> Running -> Reporting ->
\* Done, or Validating -> Aborted; a run that passes validation reaches
\* Done whatever the outcomes of its entries; nothing happens after Done.
C14_RunController ==
    /\ [][pc' # pc => <<pc, pc'>> \in ControllerMoves]_vars
    /\ (pc = "Running") ~> (pc = "Done")
    /\ [][pc # "Done"]_vars

C14_Witness ==
    /\ pc = "Done"
    /\ processed >= 1
    /\ failed >= 1

(***************************************************************************)
(* C15                                                                     *)
(***************************************************************************)
\* p is the input root or lies below it
UnderRoot(p) == p = args.input \/ Below(p, args.input)

NoFileName(p) == p.comps = << >> \/ p.comps[Len(p.comps)] = <<".", ".">>

EligibleEntry(r) ==
    /\ r.ok
    /\ r.ft = "file"
    /\ ~NoFileName(r.path)
    /\ LastName(r.path) \in JpegNames

\* C15: for an eligible entry whose path is not under the input root the
\* destination is the base name joined to the output root, the fallback is
\* logged as a warning, and the entry is counted as processed, not failed.
C15_FallbackWarned ==
    \A l \in log : (~l.direct /\ EligibleEntry(l.res) /\ ~UnderRoot(l.res.path))
        => /\ l.dst = [abs |-> args.output.abs,
                       comps |-> Append(args.output.comps, LastName(l.res.path))]
           /\ l.outcome = "Processed"
           /\ processed = 1
           /\ failed = 0
           /\ \E ln \in l.lines : ln.level = "warn"

OutputDirs ==
    {[path |-> [abs |-> args.output.abs, comps |-> SubSeq(args.output.comps, 1, n)],
      kind |-> "dir"] : n \in 1..Len(args.output.comps)}

UnderInput(f) == {n \in f : Below(n.path, args.input)}

\* C17 (as stated): while the walker runs the input root is a directory,
\* the output root and the directories above it exist, and validation has
\* changed nothing under the input root.
C17_RootsValidated ==
    pc = "Running"
        => /\ [path |-> args.input, kind |-> "dir"] \in fs
           /\ OutputDirs \subseteq fs
           /\ UnderInput(fs) = UnderInput(fs0)

\* C17 (amended): while the walker runs the input root is a directory and
\* the output root and the directories above it exist; validation removed
\* nothing and added nothing but missing directories of the output path,
\* none at all when the output root was there, and so nothing under the
\* input root unless the output root lies under it.
C17_RootsValidatedOutputAside ==
    pc = "Running"
        => /\ [path |-> args.input, kind |-> "dir"] \in fs
           /\ OutputDirs \subseteq fs
           /\ fs0 \subseteq fs
           /\ (fs \ fs0) \subseteq OutputDirs
           /\ (\E n \in fs0 : n.path = args.output) => fs = fs0
           /\ ~Below(args.output, args.input)
                => UnderInput(fs) = UnderInput(fs0)

C17_Witness ==
    /\ pc = "Running"
    /\ ~Below(args.output, args.input)
    /\ Cardinality(fs \ fs0) = 2
    /\ UnderInput(fs) # {}

(***************************************************************************)
(* C18                                                                     *)
(***************************************************************************)
\* C18: process_img returns an error only for a source path that is not
\* under the input root and has no file name (and for every such path); so
\* in a run whose delivered paths are all under the input root, failed is
\* the number of traversal errors delivered and processed the number of
\* eligible regular files delivered.
C18_ProcessImgErrors ==
    /\ \A l \in log : l.direct
          => (l.outcome = "Failed"
                <=> (~UnderRoot(l.res.path) /\ NoFileName(l.res.path)))
    /\ (WalkOver /\ \A r \in visited : r.ok => UnderRoot(r.path))
          => /\ failed = Cardinality(ErrorsVisited)
             /\ processed = Cardinality({r \in visited : EligibleEntry(r)})

C18_Witness ==
    \E l \in log : l.direct /\ l.outcome = "Failed" /\ l.res.path.abs

====
